---- MODULE Spec2Model ----
(***************************************************************************)
(* Red-object detection loop of src/main.rs: a GStreamer appsink is polled *)
(* for BGR frames; every frame is converted to HSV, thresholded for red,   *)
(* opened and closed with a 5x5 ellipse, its external contours are found   *)
(* and the contour of largest area is boxed, marked and logged.            *)
(*                                                                         *)
(* Images are modelled pixel by pixel on a capture size scaled down from   *)
(* 640x480 (width, height below).  A Mat of 3 channels is a function from  *)
(* pixel <<x, y>> to <<c0, c1, c2>>; a single-channel 0/255 mask is the    *)
(* set of its non-zero pixels.  Areas (f64 in the source, always a         *)
(* multiple of 0.5 for a polygon on integer points) are held doubled, so   *)
(* that they stay integers: 0.0 is 0, 94.0 is 188.                         *)
(***************************************************************************)
EXTENDS Integers, Sequences, FiniteSets, TLC

(* ---------------------------------------------------------------- sizes *)

\* capture size (main.rs:27-28), scaled down
width == 10
height == 4
\* frames pulled before the model stops pulling (frame_count is a u64)
MaxFrames == 363

channels == 3
ksize == 5
FrameLimit == 361
FpsPeriod == 120
KeyQ == 113
KeyShiftQ == 81
\* a key that is neither q nor Q
OtherKeys == {32}
NoKey == -1

\* Option: None is the empty sequence, Some(v) holds v; an unset Mat is empty too
None == <<>>
Some(v) == <<v>>

Pixels == {<<x, y>> : x \in 0..(width - 1), y \in 0..(height - 1)}

expected == width * height * channels

Min(S) == CHOOSE a \in S : \A b \in S : a <= b
Max(S) == CHOOSE a \in S : \A b \in S : a >= b
Abs(n) == IF n < 0 THEN -n ELSE n

(* ------------------------------------------------- mat_from_bgr_bytes *)

\* Mat::from_slice(data).reshape(3, rows): byte 3*(y*cols + x) + c of the
\* slice is channel c of pixel (x, y).  Indices of a Seq start at 1.
mat_from_bgr_bytes(rows, cols, bytes) ==
    [p \in {<<x, y>> : x \in 0..(cols - 1), y \in 0..(rows - 1)} |->
        LET base == channels * (p[2] * cols + p[1])
        IN  <<bytes[base + 1], bytes[base + 2], bytes[base + 3]>>]

(* ----------------------------------------------------------- cvt_color *)

\* saturate_cast<int>(a / b) for a >= 0, b > 0: round to nearest
RoundDiv(a, b) == (2 * a + b) \div (2 * b)

\* the 8-bit tables of the library's BGR2HSV: (180 << 12) / (6 i), (255 << 12) / i
hdiv_table(i) == IF i = 0 THEN 0 ELSE RoundDiv(180 * 4096, 6 * i)
sdiv_table(i) == IF i = 0 THEN 0 ELSE RoundDiv(255 * 4096, i)

\* one pixel of COLOR_BGR2HSV on 8-bit data: H in 0..179, S and V in 0..255
bgr2hsv(px) ==
    LET b == px[1]
        g == px[2]
        r == px[3]
        v == Max({b, g, r})
        vmin == Min({b, g, r})
        diff == v - vmin
        s == (diff * sdiv_table(v) + 2048) \div 4096
        hraw == IF v = r THEN g - b
                ELSE IF v = g THEN b - r + 2 * diff
                ELSE r - g + 4 * diff
        h == (hraw * hdiv_table(diff) + 2048) \div 4096
    IN  <<IF h < 0 THEN h + 180 ELSE h, s, v>>

cvt_color(m) == [p \in DOMAIN m |-> bgr2hsv(m[p])]

(* ------------------------------------------------------------ in_range *)

lower_red1 == <<0, 120, 70>>
upper_red1 == <<10, 255, 255>>
lower_red2 == <<170, 120, 70>>
upper_red2 == <<180, 255, 255>>

in_range(src, lowerb, upperb) ==
    {p \in DOMAIN src :
        \A c \in 1..channels : lowerb[c] <= src[p][c] /\ src[p][c] <= upperb[c]}

bitwise_or(m1, m2) == m1 \cup m2

(* ---------------------------------------------------------- morphology *)

\* MORPH_ELLIPSE of ksize x ksize, as offsets from the anchor (the centre):
\* row dy holds the columns within dx = round(c * sqrt((r*r - dy*dy) / (r*r)))
EllipseHalfWidth(dy) ==
    LET r == ksize \div 2
        c == ksize \div 2
        t == 4 * c * c * (r * r - dy * dy)
    IN  CHOOSE d \in 0..c :
            /\ (d = 0 \/ (2 * d - 1) * (2 * d - 1) * r * r <= t)
            /\ t < (2 * d + 1) * (2 * d + 1) * r * r

get_structuring_element ==
    LET r == ksize \div 2
        c == ksize \div 2
    IN  {<<dx, dy>> \in ((-c)..c) \X ((-r)..r) :
            /\ c + dx >= Max({c - EllipseHalfWidth(dy), 0})
            /\ c + dx < Min({c + EllipseHalfWidth(dy) + 1, ksize})}

\* BORDER_DEFAULT = BORDER_REFLECT_101: gfedcb|abcdefgh|gfedcba
RECURSIVE borderInterpolate(_, _)
borderInterpolate(i, len) ==
    IF len = 1 THEN 0
    ELSE IF i < 0 THEN borderInterpolate(-i, len)
    ELSE IF i >= len THEN borderInterpolate(2 * (len - 1) - i, len)
    ELSE i

At(p, k) == <<borderInterpolate(p[1] + k[1], width), borderInterpolate(p[2] + k[2], height)>>

\* the element as the filter lays it on the image: for every anchor pixel, the
\* pixels read through the element, those beyond the edge by the border rule
footprint == [p \in Pixels |-> {At(p, o) : o \in get_structuring_element}]

\* k is the element laid on the image (footprint)
erode(m, k) == {p \in Pixels : k[p] \subseteq m}
dilate(m, k) == {p \in Pixels : k[p] \cap m # {}}

morphology_ex(m, op, k) ==
    IF op = "MORPH_OPEN" THEN dilate(erode(m, k), k) ELSE erode(dilate(m, k), k)

(* -------------------------------------------------------- find_contours *)

RasterFirst(S) ==
    CHOOSE p \in S : \A q \in S : p[2] < q[2] \/ (p[2] = q[2] /\ p[1] <= q[1])

Adjacent8(p, q) == p # q /\ Abs(p[1] - q[1]) <= 1 /\ Abs(p[2] - q[2]) <= 1
Adjacent4(p, q) == Abs(p[1] - q[1]) + Abs(p[2] - q[2]) = 1

\* the 8-connected component of m that holds the pixels c
RECURSIVE Grow8(_, _)
Grow8(c, m) ==
    LET n == {q \in m \ c : \E p \in c : Adjacent8(p, q)}
    IN  IF n = {} THEN c ELSE Grow8(c \cup n, m)

RECURSIVE Grow4(_, _)
Grow4(c, m) ==
    LET n == {q \in m \ c : \E p \in c : Adjacent4(p, q)}
    IN  IF n = {} THEN c ELSE Grow4(c \cup n, m)

\* the components of a mask, in the order the raster scan meets them
RECURSIVE Components(_)
Components(m) ==
    IF m = {} THEN <<>>
    ELSE LET c == Grow8({RasterFirst(m)}, m)
         IN  <<c>> \o Components(m \ c)

\* background connected (4-connectivity) to the frame around the image
Outside(m) ==
    LET bg == Pixels \ m
        rim == {p \in bg : p[1] = 0 \/ p[2] = 0 \/ p[1] = width - 1 \/ p[2] = height - 1}
    IN  IF rim = {} THEN {} ELSE Grow4(rim, bg)

\* RETR_EXTERNAL: a component counts when its outer border lies in the outside
\* background, not in a hole of another component
IsExternal(c, m) ==
    LET s == RasterFirst(c)
        w == <<s[1] - 1, s[2]>>
    IN  w \notin Pixels \/ w \in Outside(m)

\* the 8 neighbours, clockwise on the screen from the west one
Dirs == << <<-1, 0>>, <<-1, -1>>, <<0, -1>>, <<1, -1>>,
           <<1, 0>>, <<1, 1>>, <<0, 1>>, <<-1, 1>> >>
Nb(p, d) == <<p[1] + Dirs[d + 1][1], p[2] + Dirs[d + 1][2]>>
DirOf(p, q) == CHOOSE d \in 0..7 : Nb(p, d) = q

\* border following: from p3, coming from p2, the next border pixel is the
\* first pixel of c met counter-clockwise after p2; the border is closed when
\* the step start -> first is about to be taken again
RECURSIVE Follow(_, _, _, _, _, _)
Follow(c, start, first, p2, p3, acc) ==
    LET d == DirOf(p3, p2)
        j == Min({i \in 1..8 : Nb(p3, (d - i + 8) % 8) \in c})
        p4 == Nb(p3, (d - j + 8) % 8)
    IN  IF p4 = start /\ p3 = first
        THEN Append(acc, p3)
        ELSE Follow(c, start, first, p3, p4, Append(acc, p3))

\* the outer border of component c, every border pixel in order
Border(c) ==
    LET start == RasterFirst(c)
        ds == {d \in 0..7 : Nb(start, d) \in c}
    IN  IF ds = {} THEN <<start>>
        ELSE LET first == Nb(start, Min(ds))
             IN  Follow(c, start, first, first, start, <<>>)

\* CHAIN_APPROX_SIMPLE: only the points where the border turns are kept
chain_approx_simple(pts) ==
    LET n == Len(pts)
        prev(i) == pts[IF i = 1 THEN n ELSE i - 1]
        next(i) == pts[IF i = n THEN 1 ELSE i + 1]
        turns(i) == <<pts[i][1] - prev(i)[1], pts[i][2] - prev(i)[2]>>
                    # <<next(i)[1] - pts[i][1], next(i)[2] - pts[i][2]>>
        RECURSIVE keep(_)
        keep(i) == IF i > n THEN <<>>
                   ELSE (IF turns(i) THEN <<pts[i]>> ELSE <<>>) \o keep(i + 1)
    IN  IF n <= 2 THEN pts ELSE keep(1)

\* RETR_EXTERNAL, CHAIN_APPROX_SIMPLE, in raster order of the components
RECURSIVE ContoursOf(_, _)
ContoursOf(cs, m) ==
    IF cs = <<>> THEN <<>>
    ELSE (IF IsExternal(Head(cs), m)
          THEN <<chain_approx_simple(Border(Head(cs)))>> ELSE <<>>)
         \o ContoursOf(Tail(cs), m)

find_contours(m) == ContoursOf(Components(m), m)

(* ------------------------------------------ contour_area, bounding_rect *)

\* twice the area of the polygon (Green's formula), oriented = false
contour_area(cnt) ==
    LET n == Len(cnt)
        RECURSIVE sum(_)
        sum(i) == IF i > n THEN 0
                  ELSE LET q == cnt[IF i = n THEN 1 ELSE i + 1]
                       IN  cnt[i][1] * q[2] - q[1] * cnt[i][2] + sum(i + 1)
    IN  Abs(sum(1))

bounding_rect(cnt) ==
    LET xs == {cnt[i][1] : i \in 1..Len(cnt)}
        ys == {cnt[i][2] : i \in 1..Len(cnt)}
    IN  [x |-> Min(xs), y |-> Min(ys),
         width |-> Max(xs) - Min(xs) + 1, height |-> Max(ys) - Min(ys) + 1]

\* largest_contour with >= for >: a contour of equal area replaces the best
RECURSIVE largest_contour_ge(_, _, _, _)
largest_contour_ge(cnts, i, area0, rect0) ==
    IF i > Len(cnts) THEN [largest_area |-> area0, best_rect |-> rect0]
    ELSE LET area == contour_area(cnts[i])
         IN  IF area >= area0
             THEN largest_contour_ge(cnts, i + 1, area, Some(bounding_rect(cnts[i])))
             ELSE largest_contour_ge(cnts, i + 1, area0, rect0)

\* largest_contour with the loop started one contour late
RECURSIVE largest_contour_from2(_, _, _, _)
largest_contour_from2(cnts, i, area0, rect0) ==
    IF i > Len(cnts) THEN [largest_area |-> area0, best_rect |-> rect0]
    ELSE LET area == contour_area(cnts[i])
         IN  IF i > 1 /\ area > area0
             THEN largest_contour_from2(cnts, i + 1, area, Some(bounding_rect(cnts[i])))
             ELSE largest_contour_from2(cnts, i + 1, area0, rect0)

\* the loop of main.rs:170-180 from contour i on
RECURSIVE largest_contour(_, _, _, _)
largest_contour(cnts, i, area0, rect0) ==
    IF i > Len(cnts) THEN [largest_area |-> area0, best_rect |-> rect0]
    ELSE LET area == contour_area(cnts[i])
         IN  IF area > area0
             THEN largest_contour(cnts, i + 1, area, Some(bounding_rect(cnts[i])))
             ELSE largest_contour(cnts, i + 1, area0, rect0)

\* centroid without the halving
centroid_nohalf(r) == [cx |-> r.x + r.width, cy |-> r.y + r.height]

\* centre of the marker drawn at main.rs:192-193 (i32 division)
centroid(r) == [cx |-> r.x + r.width \div 2, cy |-> r.y + r.height \div 2]

(* --------------------------------------------------------------- frames *)

\* BGR byte triples
BLACK == <<0, 0, 0>>
RED == <<0, 0, 255>>
BLUE == <<255, 0, 0>>

\* BGR triples around the thresholds of main.rs:120-123
ORANGE_RED == <<23, 57, 230>>
GREEN == <<23, 230, 23>>
DEEP_BLUE == <<230, 23, 23>>
PALE_RED == <<207, 211, 230>>
DARK_RED == <<6, 15, 60>>
ROSE == <<128, 0, 255>>
CRIMSON == <<40, 0, 255>>

SampleColours == {ORANGE_RED, GREEN, DEEP_BLUE, PALE_RED, DARK_RED, ROSE, CRIMSON}

Rect(x0, y0, x1, y1) == {p \in Pixels : x0 <= p[1] /\ p[1] <= x1 /\ y0 <= p[2] /\ p[2] <= y1}

Rects == {Rect(x0, y0, x1, y1) :
            <<x0, y0, x1, y1>> \in {q \in (0..(width - 1)) \X (0..(height - 1))
                                        \X (0..(width - 1)) \X (0..(height - 1)) :
                                     q[1] <= q[3] /\ q[2] <= q[4]}}

\* a rectangle in the top left corner with a rectangle on the right edge, apart
RectPairs ==
    {Rect(0, 0, q[1], q[2]) \cup Rect(q[3], q[4], width - 1, q[5]) :
        q \in {t \in (0..(width - 1)) \X (0..(height - 1))
                     \X (0..(width - 1)) \X (0..(height - 1)) \X (0..(height - 1)) :
                 t[4] <= t[5] /\ t[3] > t[1] + 1}}

\* the rectangles in the top left corner
CornerRects == {Rect(0, 0, x1, y1) : x1 \in 0..(width - 1), y1 \in 0..(height - 1)}

\* the buffer of a full frame: the pixels of shape in colour, the rest black
Paint(shape, colour) ==
    [i \in 1..expected |->
        LET k == (i - 1) \div channels
        IN  IF <<k % width, k \div width>> \in shape
            THEN colour[((i - 1) % channels) + 1] ELSE 0]

\* frames of the detection specification: black, one red rectangle, two red
\* rectangles, one blue rectangle, and frames of one colour all over
DetectFrames ==
    {Paint(s, RED) : s \in {{}} \cup Rects \cup RectPairs}
        \cup {Paint(s, BLUE) : s \in CornerRects}
        \cup {Paint(Pixels, c) : c \in SampleColours}

\* buffers the loop specification pulls: a full black frame, a frame with a
\* red block and a byte too many, and the same frame a byte short
LoopFrames ==
    LET blob == Paint(Rect(0, 0, width \div 2, height - 1), RED)
    IN  {Paint({}, RED), Append(blob, 0), SubSeq(blob, 1, expected - 1)}

(* -------------------------------------------------------------- appsink *)

\* main.rs:31, 45: appsink name=sink max-buffers=1 drop=true
max_buffers == 1
drop == TRUE

\* appsink_push that keeps the queued sample and throws the new one away
appsink_push_keep_old(q) ==
    LET aged == [i \in 1..Len(q) |-> q[i] + 1]
    IN  IF Len(aged) < max_buffers THEN Append(aged, 0) ELSE aged

\* a frame reaches the appsink: the samples waiting are one frame older; with
\* the queue full and drop set the oldest is dropped for the new one, without
\* drop the new one waits outside
appsink_push(q) ==
    LET aged == [i \in 1..Len(q) |-> q[i] + 1]
    IN  IF Len(aged) < max_buffers THEN Append(aged, 0)
        ELSE IF drop THEN Append(Tail(aged), 0)
        ELSE aged

\* pull_sample takes the oldest sample out of the queue
appsink_pop(q) == Tail(q)

(* ---------------------------------------------------------------- state *)

VARIABLES
    pc,             \* where main is
    pipeline,       \* state of the GStreamer pipeline: "Null" or "Playing"
    stream,         \* "live", or "eos" once the source has ended
    pending_key,    \* key waiting in the window's event queue, NoKey if none
    queue,          \* the appsink's undelivered samples, oldest first; a sample is
                    \* held as the number of frames captured after it
    last_pulled,    \* the same number for the sample pulled last, None before
                    \* the first; counted no further than max_buffers
    logged,         \* a detection line with the present frame_count was printed
    frame_count,
    data,           \* bytes of the pulled sample's buffer
    mat, hsv, mask, contours, largest_area, best_rect,
    marker,         \* box and centre drawn, and the line logged, for this frame
    shown,          \* this frame was passed to imshow
    polled,         \* wait_key ran in this iteration
    reported,       \* the FPS line was printed in this iteration
    exit            \* what main returned: "none" while running, "Ok", or the error

vars == <<pc, pipeline, stream, pending_key, queue, last_pulled, logged, frame_count, data, mat, hsv, mask,
          contours, largest_area, best_rect, marker, shown, polled, reported, exit>>

env == <<stream, pending_key, queue, last_pulled, logged>>
locals == <<data, mat, hsv, mask, contours, largest_area, best_rect, marker,
            shown, polled, reported>>

\* FreshLocals with the detection declared outside the loop: the marker of
\* the frame before stays until a new one is made
FreshLocals_StaleMarker ==
    /\ mat' = None
    /\ hsv' = None
    /\ mask' = {}
    /\ contours' = <<>>
    /\ largest_area' = 0
    /\ best_rect' = None
    /\ marker' = marker
    /\ shown' = FALSE
    /\ polled' = FALSE
    /\ reported' = FALSE

\* the loop body's locals as an iteration finds them.  The values an
\* iteration leaves behind stay visible until the next pull_sample.
FreshLocals ==
    /\ mat' = None
    /\ hsv' = None
    /\ mask' = {}
    /\ contours' = <<>>
    /\ largest_area' = 0
    /\ best_rect' = None
    /\ marker' = None
    /\ shown' = FALSE
    /\ polled' = FALSE
    /\ reported' = FALSE

Init ==
    /\ pc = "start"
    /\ pipeline = "Null"
    /\ stream = "live"
    /\ pending_key = NoKey
    /\ queue = <<>>
    /\ last_pulled = None
    /\ logged = FALSE
    /\ frame_count = 0
    /\ data = <<>>
    /\ mat = None
    /\ hsv = None
    /\ mask = {}
    /\ contours = <<>>
    /\ largest_area = 0
    /\ best_rect = None
    /\ marker = None
    /\ shown = FALSE
    /\ polled = FALSE
    /\ reported = FALSE
    /\ exit = "none"

\* a `?` that returns the error from main: the pipeline is left in the state
\* it has
Abort(err) ==
    /\ pc' = "done"
    /\ exit' = err
    /\ UNCHANGED <<pipeline, frame_count, env, locals>>

\* `continue`, or the end of the loop body: back to pull_sample
NextIteration ==
    /\ pc' = "pull"
    /\ UNCHANGED <<pipeline, frame_count, env, locals, exit>>

Goto(l) == pc' = l /\ UNCHANGED <<pipeline, frame_count, env, exit>>

(* -------------------------------------------------------------- actions *)

\* main.rs:24-75: init, parse::launch (with the rpicamsrc fallback), the
\* appsink lookup and set_state(Playing); each may fail and return
Start ==
    /\ pc = "start"
    /\ \/ /\ pipeline' = "Playing"
          /\ pc' = "window"
          /\ UNCHANGED <<frame_count, env, locals, exit>>
       \/ /\ pc' = "done"
          /\ exit' = "Failed to start pipeline"
          /\ UNCHANGED <<pipeline, frame_count, env, locals>>

\* main.rs:81: named_window(..)?
OpenWindow ==
    /\ pc = "window"
    /\ \/ Abort("named_window failed")
       \/ Goto("pull") /\ UNCHANGED locals

\* PullSample without the count: the sample is pulled, frame_count stays
PullSample_NoCount ==
    /\ pc = "pull"
    /\ \/ /\ queue # <<>>
          /\ frame_count < MaxFrames
          /\ \E f \in LoopFrames : FreshLocals /\ data' = f
          /\ last_pulled' = Some(Head(queue))
          /\ queue' = appsink_pop(queue)
          /\ pc' = "buffer"
          /\ UNCHANGED <<pipeline, stream, pending_key, logged, frame_count, exit>>
       \/ Goto("sleep") /\ FreshLocals /\ data' = <<>>

\* main.rs:88-90, 237-241: pull_sample hands over the oldest queued sample
\* (it waits while there is none); Ok counts the frame, Err logs and sleeps
PullSample ==
    /\ pc = "pull"
    /\ \/ /\ queue # <<>>
          /\ frame_count < MaxFrames
          /\ \E f \in LoopFrames : FreshLocals /\ data' = f
          /\ last_pulled' = Some(Head(queue))
          /\ queue' = appsink_pop(queue)
          /\ frame_count' = frame_count + 1
          /\ logged' = FALSE
          /\ pc' = "buffer"
          /\ UNCHANGED <<pipeline, stream, pending_key, exit>>
       \/ Goto("sleep") /\ FreshLocals /\ data' = <<>>

\* Sleep that gives up after the failed pull and leaves the loop
Sleep_GiveUp ==
    /\ pc = "sleep"
    /\ Goto("cleanup")
    /\ UNCHANGED locals

\* main.rs:240: sleep(50 ms), then the loop starts over
Sleep ==
    /\ pc = "sleep"
    /\ NextIteration

\* main.rs:91-97: sample.buffer() and buffer.map_readable(), each with `?`
MapBuffer ==
    /\ pc = "buffer"
    /\ \/ Abort("Sample has no buffer")
       \/ Abort("Failed to map buffer readable")
       \/ Goto("validate") /\ UNCHANGED locals

\* Validate with the channel count left out of the expected size
Validate_NoChannels ==
    /\ pc = "validate"
    /\ IF Len(data) < width * height
       THEN NextIteration
       ELSE Goto("mat") /\ UNCHANGED locals

\* main.rs:99-108: a buffer shorter than width*height*3 is skipped
Validate ==
    /\ pc = "validate"
    /\ IF Len(data) < expected
       THEN NextIteration
       ELSE Goto("mat") /\ UNCHANGED locals

\* main.rs:111-112
BuildMat ==
    /\ pc = "mat"
    /\ \/ Abort("Failed to build Mat from raw bytes")
       \/ /\ mat' = mat_from_bgr_bytes(height, width, SubSeq(data, 1, expected))
          /\ Goto("cvt")
          /\ UNCHANGED <<data, hsv, mask, contours, largest_area, best_rect,
                         marker, shown, polled, reported>>

\* main.rs:115-116
CvtColor ==
    /\ pc = "cvt"
    /\ \/ Abort("cvt_color failed")
       \/ /\ hsv' = cvt_color(mat)
          /\ Goto("threshold")
          /\ UNCHANGED <<data, mat, mask, contours, largest_area, best_rect,
                         marker, shown, polled, reported>>

\* main.rs:120-130: the two in_range masks and their bitwise_or
Threshold ==
    /\ pc = "threshold"
    /\ \/ Abort("in_range failed")
       \/ /\ mask' = bitwise_or(in_range(hsv, lower_red1, upper_red1),
                                in_range(hsv, lower_red2, upper_red2))
          /\ Goto("open")
          /\ UNCHANGED <<data, mat, hsv, contours, largest_area, best_rect,
                         marker, shown, polled, reported>>

\* MorphOpen left out: the thresholded mask goes on unfiltered
MorphOpen_Skipped ==
    /\ pc = "open"
    /\ Goto("contours")
    /\ UNCHANGED locals

\* main.rs:133-147
MorphOpen ==
    /\ pc = "open"
    /\ \/ Abort("morphology_ex failed")
       \/ /\ mask' = morphology_ex(mask, "MORPH_OPEN", footprint)
          /\ Goto("close")
          /\ UNCHANGED <<data, mat, hsv, contours, largest_area, best_rect,
                         marker, shown, polled, reported>>

\* main.rs:148-157
MorphClose ==
    /\ pc = "close"
    /\ \/ Abort("morphology_ex failed")
       \/ /\ mask' = morphology_ex(mask, "MORPH_CLOSE", footprint)
          /\ Goto("contours")
          /\ UNCHANGED <<data, mat, hsv, contours, largest_area, best_rect,
                         marker, shown, polled, reported>>

\* main.rs:160-167; the library does not say in which order the contours are
\* returned, so any order is possible
FindContours ==
    /\ pc = "contours"
    /\ \/ Abort("find_contours failed")
       \/ /\ LET found == find_contours(mask)
             IN  \E perm \in Permutations(1..Len(found)) :
                    contours' = [i \in 1..Len(found) |-> found[perm[i]]]
          /\ Goto("select")
          /\ UNCHANGED <<data, mat, hsv, mask, largest_area, best_rect,
                         marker, shown, polled, reported>>

\* main.rs:170-180
SelectLargest ==
    /\ pc = "select"
    /\ \/ Abort("contour_area failed")
       \/ /\ LET best == largest_contour(contours, 1, 0, None)
             IN  /\ largest_area' = best.largest_area
                 /\ best_rect' = best.best_rect
          /\ Goto("annotate")
          /\ UNCHANGED <<data, mat, hsv, mask, contours, marker, shown, polled, reported>>

\* main.rs:182-210: with a rectangle, draw it and the centre and log the line
Annotate ==
    /\ pc = "annotate"
    /\ \/ /\ best_rect # None
          /\ marker' = Some([rect |-> best_rect[1], centre |-> centroid(best_rect[1]),
                             frame |-> frame_count, area |-> largest_area])
          /\ logged' = TRUE
          /\ pc' = "show"
          /\ UNCHANGED <<pipeline, stream, pending_key, queue, last_pulled,
                         frame_count, exit>>
          /\ UNCHANGED <<data, mat, hsv, mask, contours, largest_area, best_rect,
                         shown, polled, reported>>
       \/ /\ best_rect # None
          /\ Abort("rectangle failed")
       \/ /\ best_rect = None
          /\ Goto("show")
          /\ UNCHANGED locals

\* main.rs:213
Show ==
    /\ pc = "show"
    /\ \/ Abort("imshow failed")
       \/ /\ shown' = TRUE
          /\ Goto("waitkey")
          /\ UNCHANGED <<data, mat, hsv, mask, contours, largest_area, best_rect,
                         marker, polled, reported>>

\* main.rs:215-220: wait_key(1) takes the waiting key; q or Q breaks
WaitKey ==
    /\ pc = "waitkey"
    /\ \/ Abort("wait_key failed")
       \/ /\ polled' = TRUE
          /\ pending_key' = NoKey
          /\ pc' = IF pending_key = KeyQ \/ pending_key = KeyShiftQ THEN "cleanup" ELSE "fps"
          /\ UNCHANGED <<pipeline, stream, queue, last_pulled, logged, frame_count, data, mat,
                         hsv, mask, contours, largest_area, best_rect, marker, shown,
                         reported, exit>>

\* main.rs:223-231
ReportFps ==
    /\ pc = "fps"
    /\ reported' = (frame_count % FpsPeriod = 0)
    /\ Goto("limit")
    /\ UNCHANGED <<data, mat, hsv, mask, contours, largest_area, best_rect,
                   marker, shown, polled>>

\* main.rs:233-236
CheckLimit ==
    /\ pc = "limit"
    /\ IF frame_count = FrameLimit
       THEN Goto("cleanup") /\ UNCHANGED locals
       ELSE NextIteration

\* Cleanup placed inside the loop: the pipeline is set to Null and the loop
\* goes on
Cleanup_Resume ==
    /\ pc = "cleanup"
    /\ pipeline' = "Null"
    /\ pc' = "pull"
    /\ UNCHANGED <<frame_count, env, locals, exit>>

\* main.rs:246-247: set_state(Null)?, then Ok(())
Cleanup ==
    /\ pc = "cleanup"
    /\ \/ Abort("set_state(Null) failed")
       \/ /\ pipeline' = "Null"
          /\ pc' = "done"
          /\ exit' = "Ok"
          /\ UNCHANGED <<frame_count, env, locals>>

\* the user presses a key in the window
KeyPress ==
    /\ pc \notin {"start", "window", "done"}
    /\ pending_key = NoKey
    /\ \E k \in {KeyQ, KeyShiftQ} \cup OtherKeys : pending_key' = k
    /\ UNCHANGED <<pc, pipeline, stream, queue, last_pulled, logged, frame_count,
                   locals, exit>>

\* the source ends (end of stream, device lost): no frame comes any more, and
\* once the queue is empty every pull fails
StreamEnd ==
    /\ pc \notin {"start", "done"}
    /\ stream = "live"
    /\ stream' = "eos"
    /\ UNCHANGED <<pc, pipeline, pending_key, queue, last_pulled, logged, frame_count,
                   locals, exit>>

\* the camera captures a frame and the pipeline's streaming thread hands it
\* to the appsink (main.rs:31: max-buffers=1 drop=true)
Produce ==
    /\ pipeline = "Playing"
    /\ pc # "done"
    /\ stream = "live"
    /\ queue' = appsink_push(queue)
    /\ last_pulled' = IF last_pulled = None THEN None
                      ELSE Some(Min({last_pulled[1] + 1, max_buffers}))
    /\ UNCHANGED <<pc, pipeline, stream, pending_key, logged, frame_count, locals, exit>>

Detect ==
    \/ BuildMat \/ CvtColor \/ Threshold \/ MorphOpen \/ MorphClose
    \/ FindContours \/ SelectLargest \/ Annotate

Step ==
    \/ Start \/ OpenWindow \/ PullSample \/ Sleep \/ MapBuffer \/ Validate
    \/ Detect \/ Show \/ WaitKey \/ ReportFps \/ CheckLimit \/ Cleanup

Next == Step \/ KeyPress \/ StreamEnd \/ Produce

Spec == Init /\ [][Next]_vars

\* the program keeps running: no step of main waits for anything but the
\* sample, which the model always answers
FairSpec == Spec /\ WF_vars(Step)

\* the detection stages alone, on a frame that has just passed the size check
DetectInit ==
    /\ pc = "mat"
    /\ pipeline = "Playing"
    /\ stream = "live"
    /\ pending_key = NoKey
    /\ queue = <<>>
    /\ last_pulled = Some(0)
    /\ logged = FALSE
    /\ frame_count = 1
    /\ data \in DetectFrames
    /\ mat = None
    /\ hsv = None
    /\ mask = {}
    /\ contours = <<>>
    /\ largest_area = 0
    /\ best_rect = None
    /\ marker = None
    /\ shown = FALSE
    /\ polled = FALSE
    /\ reported = FALSE
    /\ exit = "none"

DetectSpec == DetectInit /\ [][Detect]_vars

(* --------------------------------------------------------------- claims *)

\* the stages between the size check and the end of the loop body
Processing ==
    {"mat", "cvt", "threshold", "open", "close", "contours", "select",
     "annotate", "show", "waitkey", "fps", "limit"}

\* nothing of the detection has been computed from the current buffer
Untouched ==
    /\ mat = None
    /\ hsv = None
    /\ mask = {}
    /\ contours = <<>>
    /\ best_rect = None
    /\ marker = None
    /\ ~shown

\* C1: a buffer shorter than width*height*3 is never processed: no stage
\* from the Mat construction on ever holds one, nothing is computed from it,
\* and the step main takes on it is the `continue` back to pull_sample,
\* without an error.
C1_ShortBufferSkipped ==
    /\ [](pc \in Processing => Len(data) >= expected)
    /\ [](Len(data) < expected => Untouched)
    /\ [][(pc = "validate" /\ Len(data) < expected /\ pc' # pc)
            => (pc' = "pull" /\ exit' = "none" /\ UNCHANGED locals)]_vars

\* a short buffer has been pulled and skipped, and main is back at pull_sample
C1_Witness ==
    /\ pc = "pull"
    /\ exit = "none"
    /\ data # <<>>
    /\ Len(data) < expected
    /\ Untouched

\* C2 (as claimed): while the loop runs the frame counter never exceeds the
\* limit of 361 frames, whatever frames were pulled.
C2_CounterWithinLimit ==
    pc \notin {"cleanup", "done"} => frame_count <= FrameLimit

\* C3 (as claimed): once the source has ended, main eventually returns.
C3_StreamEndStops ==
    (stream = "eos") ~> (pc = "done")

\* C4 (as claimed): every iteration polls the keyboard before the loop goes
\* back to pull_sample, also when the frame was skipped or the pull failed.
C4_PolledEveryIteration ==
    [][(pc \in {"validate", "sleep", "limit"} /\ pc' = "pull") => polled]_vars

\* errors returned before the loop is entered
StartupErrors == {"Failed to start pipeline", "named_window failed"}

\* C5 (as claimed): however the loop was left, the pipeline has been set to
\* Null when main has returned.
C5_PipelineReleased ==
    (pc = "done" /\ exit \notin StartupErrors) => pipeline = "Null"

\* the failures of a sample, its buffer and the per-frame stages
LocalFailures ==
    {"Sample has no buffer", "Failed to map buffer readable",
     "Failed to build Mat from raw bytes", "cvt_color failed", "in_range failed",
     "morphology_ex failed", "find_contours failed", "contour_area failed",
     "rectangle failed", "imshow failed"}

\* C6 (as claimed): no failure of a sample, its buffer or a stage of the
\* per-frame pipeline ends the loop.
C6_LocalFailuresRecoverable ==
    ~(pc = "done" /\ exit \in LocalFailures)

\* the contours have been searched for the largest
Selected == pc \in {"annotate", "show", "waitkey", "fps", "limit"}

\* the annotation step has run on this frame
Annotated == pc \in {"show", "waitkey", "fps", "limit"}

AreaOf(i) == contour_area(contours[i])

RECURSIVE SumOf(_, _)
SumOf(S, k) ==
    IF S = {} THEN 0
    ELSE LET p == CHOOSE q \in S : TRUE IN p[k] + SumOf(S \ {p}, k)

\* v is the mean of coordinate k over the pixels of c, truncated or rounded
IsMean(v, c, k) ==
    v = SumOf(c, k) \div Cardinality(c) \/ v = RoundDiv(SumOf(c, k), Cardinality(c))

BoxOf(c) ==
    LET xs == {p[1] : p \in c}
        ys == {p[2] : p \in c}
    IN  [x |-> Min(xs), y |-> Min(ys),
         width |-> Max(xs) - Min(xs) + 1, height |-> Max(ys) - Min(ys) + 1]

\* the regions of the mask that the marker's rectangle can stand for
MarkedRegions ==
    LET cs == Components(mask)
    IN  {cs[i] : i \in {j \in 1..Len(cs) : BoxOf(cs[j]) = marker[1].rect}}

\* C8 (as claimed): the centre drawn and reported is the mean of the pixel
\* coordinates of the selected region, truncated or rounded.
C8_CentroidIsPixelMean ==
    (Annotated /\ marker # None) =>
        \E c \in MarkedRegions :
            /\ IsMean(marker[1].centre.cx, c, 1)
            /\ IsMean(marker[1].centre.cy, c, 2)

\* C9: a frame yields no detection exactly when the filtered mask is empty,
\* which is exactly when no contour has an area above 0.
C9_AbsentIffNoRegion ==
    /\ Selected =>
          (best_rect = None <=> \A i \in 1..Len(contours) : AreaOf(i) <= 0)
    /\ Annotated =>
          /\ marker = None <=> mask = {}
          /\ marker = None <=> best_rect = None

\* an all-black frame has gone through every stage and has no detection
C9_Witness ==
    /\ Annotated
    /\ \A i \in 1..Len(data) : data[i] = 0
    /\ mat # None
    /\ marker = None

\* C10: the rectangle of a detection is not empty, lies inside the frame, and
\* holds the centre x + w/2, y + h/2.
C10_BoxAndCentreInFrame ==
    (Annotated /\ marker # None) =>
        LET r == marker[1].rect
            c == marker[1].centre
            x1 == r.x + r.width - 1
            y1 == r.y + r.height - 1
        IN  /\ r.x <= x1 /\ r.y <= y1
            /\ 0 <= r.x /\ x1 < width
            /\ 0 <= r.y /\ y1 < height
            /\ r.x <= c.cx /\ c.cx <= x1
            /\ r.y <= c.cy /\ c.cy <= y1

\* a detection whose rectangle ends in the last column and the last row
C10_Witness ==
    /\ Annotated
    /\ marker # None
    /\ marker[1].rect.x + marker[1].rect.width = width
    /\ marker[1].rect.y + marker[1].rect.height = height

\* C11 (as claimed): after the threshold a pixel is foreground exactly when
\* its saturation and value reach their floors and its hue (0-179) lies in
\* [0,10] or in [160,179].
C11_ForegroundIffRedRange ==
    pc = "open" =>
        mask = {p \in Pixels :
                  /\ hsv[p][2] >= lower_red1[2]
                  /\ hsv[p][3] >= lower_red1[3]
                  /\ (hsv[p][1] \in 0..10 \/ hsv[p][1] \in 160..179)}

\* the mask as the threshold left it, before the filter
Thresholded ==
    bitwise_or(in_range(hsv, lower_red1, upper_red1),
               in_range(hsv, lower_red2, upper_red2))

\* one solid rectangle that is no noise: the structuring element fits in it
\* somewhere, so the opening does not take it for isolated pixels
CleanBlob(m) == m \in Rects /\ erode(m, footprint) # {}

\* C12 (as claimed): the filter (opening, then closing) hands back a mask of
\* one solid rectangle exactly as it was.
C12_CleanMaskUnchanged ==
    (pc = "contours" /\ CleanBlob(Thresholded)) => mask = Thresholded

\* the solid squares that are no noise
CleanSquares == {r \in Rects : CleanBlob(r) /\ BoxOf(r).width = BoxOf(r).height}

\* C13 (as claimed), for the squares that fit the modelled frame: for a frame
\* that is black except one solid red square, the line reported has the
\* square as its box, the middle of the square as its centre and the number
\* of pixels of the square as its area (areas are held doubled).
C13_SolidSquareSummary ==
    \A r \in CleanSquares :
        (Annotated /\ data = Paint(r, RED)) =>
            /\ marker # None
            /\ marker[1].rect = BoxOf(r)
            /\ 2 * marker[1].centre.cx \in
                  {2 * BoxOf(r).x + BoxOf(r).width - 1, 2 * BoxOf(r).x + BoxOf(r).width}
            /\ 2 * marker[1].centre.cy \in
                  {2 * BoxOf(r).y + BoxOf(r).height - 1, 2 * BoxOf(r).y + BoxOf(r).height}
            /\ marker[1].area = 2 * Cardinality(r)

\* C14: the appsink never holds more than one undelivered frame; the frame it
\* holds is the newest one captured (an older one was dropped for it), so
\* that is the frame the next pull_sample hands over; and every undelivered
\* frame was captured after the frame delivered last, so the frames reach
\* the loop in strictly increasing capture order.
C14_OneFreshFrameBuffered ==
    /\ Len(queue) <= 1
    /\ \A i \in 1..Len(queue) : queue[i] = 0
    /\ last_pulled # None => \A i \in 1..Len(queue) : queue[i] < last_pulled[1]

\* a second frame is being processed while the camera has captured a newer
\* one, which waits in the queue
C14_Witness ==
    /\ pc \in Processing
    /\ frame_count = 2
    /\ queue = <<0>>
    /\ last_pulled = Some(1)

\* C15: a failed pull_sample is retried.  The failed pull leaves the loop
\* running and the frame counter as it was; while main sleeps nothing has been
\* computed, shown or logged for the failed pull; and the step after the
\* sleep is the next pull_sample.
C15_FailedPullRetried ==
    /\ [][(pc = "pull" /\ pc' = "sleep")
            => (frame_count' = frame_count /\ exit' = "none" /\ pipeline' = "Playing")]_vars
    /\ [](pc = "sleep" => (Untouched /\ data = <<>> /\ ~reported /\ ~polled))
    /\ [][(pc = "sleep" /\ pc' # pc)
            => (pc' = "pull" /\ frame_count' = frame_count /\ exit' = "none"
                /\ pipeline' = "Playing" /\ UNCHANGED locals)]_vars

\* after two frames a pull has failed, main has slept and is back at
\* pull_sample, with the counter still at 2
C15_Witness ==
    /\ pc = "pull"
    /\ frame_count = 2
    /\ data = <<>>
    /\ Untouched
    /\ exit = "none"
    /\ pipeline = "Playing"

\* the order of the statements of main: from each place, the places the next
\* step can lead to when nothing fails
StageFlow ==
    {<<"start", "window">>, <<"window", "pull">>,
     <<"pull", "buffer">>, <<"pull", "sleep">>, <<"sleep", "pull">>,
     <<"buffer", "validate">>, <<"validate", "pull">>, <<"validate", "mat">>,
     <<"mat", "cvt">>, <<"cvt", "threshold">>, <<"threshold", "open">>,
     <<"open", "close">>, <<"close", "contours">>, <<"contours", "select">>,
     <<"select", "annotate">>, <<"annotate", "show">>, <<"show", "waitkey">>,
     <<"waitkey", "fps">>, <<"waitkey", "cleanup">>, <<"fps", "limit">>,
     <<"limit", "pull">>, <<"limit", "cleanup">>, <<"cleanup", "done">>}

\* every stage has run on the buffer in data, each on the result of the one
\* before it, and the frame has been shown
FullyProcessed ==
    LET found == find_contours(mask)
        best == largest_contour(contours, 1, 0, None)
    IN  /\ mat = mat_from_bgr_bytes(height, width, SubSeq(data, 1, expected))
        /\ hsv = cvt_color(mat)
        /\ mask = morphology_ex(morphology_ex(Thresholded, "MORPH_OPEN", footprint),
                                "MORPH_CLOSE", footprint)
        /\ Len(contours) = Len(found)
        /\ {contours[i] : i \in 1..Len(contours)} = {found[i] : i \in 1..Len(found)}
        /\ largest_area = best.largest_area
        /\ best_rect = best.best_rect
        /\ marker # None <=> best_rect # None
        /\ marker # None => marker[1].rect = best_rect[1]
        /\ shown

\* C16: a frame is processed to the end before the next is requested.  Every
\* step of main follows the order of the stages (or returns an error), entering
\* each at most once per frame; the annotation is made only with a region
\* selected; and when main is back at pull_sample after a frame, that frame
\* was either skipped untouched or went through every stage and was shown.
C16_FrameFullyProcessed ==
    /\ [][pc' # pc => (pc' = "done" \/ <<pc, pc'>> \in StageFlow)]_vars
    /\ [][(marker = None /\ marker' # None) => (pc = "annotate" /\ best_rect # None)]_vars
    /\ []((pc \in {"pull", "waitkey", "fps", "limit"} /\ data # <<>>) =>
            \/ Len(data) < expected /\ Untouched /\ pc = "pull"
            \/ Len(data) >= expected /\ FullyProcessed)

\* the second frame went through every stage, with a detection, and main is
\* about to request the third
C16_Witness ==
    /\ pc = "pull"
    /\ frame_count = 2
    /\ Len(data) >= expected
    /\ marker # None
    /\ FullyProcessed
    /\ polled

\* what the stages give for the buffer f alone: None, or the rectangle, the
\* centre and the area of the detection
ResultOf(f) ==
    LET m0 == mat_from_bgr_bytes(height, width, SubSeq(f, 1, expected))
        h == cvt_color(m0)
        t == bitwise_or(in_range(h, lower_red1, upper_red1),
                        in_range(h, lower_red2, upper_red2))
        m == morphology_ex(morphology_ex(t, "MORPH_OPEN", footprint),
                           "MORPH_CLOSE", footprint)
        best == largest_contour(find_contours(m), 1, 0, None)
    IN  IF best.best_rect = None THEN None
        ELSE Some([rect |-> best.best_rect[1],
                   centre |-> centroid(best.best_rect[1]),
                   area |-> best.largest_area])

\* the detection made for the frame in data, without its frame number
Detection ==
    IF marker = None THEN None
    ELSE Some([rect |-> marker[1].rect, centre |-> marker[1].centre,
               area |-> marker[1].area])

\* C17: whatever frames, skips and failed pulls came before, the detection
\* made for a frame (none, or rectangle, centre and area) is the one its
\* pixels alone give; two runs that meet the same frame report the same.
C17_ResultFromFrameOnly ==
    (pc \in {"pull", "show", "waitkey", "fps", "limit"} /\ Len(data) >= expected)
        => Detection = ResultOf(data)

\* a frame without red has been processed right after a frame with a
\* detection, and has none
C17_Witness ==
    /\ pc = "show"
    /\ frame_count = 3
    /\ Len(data) >= expected
    /\ Detection = None
    /\ stream = "eos"

\* Idle: before the loop; Stopped: the loop has been left; Running: between
IdleAt == {"start", "window"}
StoppedAt == {"cleanup", "done"}
Phase(l) == IF l \in IdleAt THEN 0 ELSE IF l \in StoppedAt THEN 2 ELSE 1

\* C18: main goes from Idle to Running to Stopped and never back.  No frame
\* has been acquired while Idle; the loop runs only with the pipeline set to
\* Playing; and once it has stopped it stays stopped, and no frame is
\* acquired, processed or shown any more.
C18_IdleRunningStopped ==
    /\ [](pc \in IdleAt => (frame_count = 0 /\ data = <<>> /\ Untouched))
    /\ [](Phase(pc) = 1 => (pipeline = "Playing" /\ exit = "none"))
    /\ [][Phase(pc') >= Phase(pc)]_vars
    /\ [][frame_count' # frame_count => (pipeline = "Playing" /\ Phase(pc) = 1)]_vars
    /\ [][(pc \in StoppedAt)
            => (pc' \in StoppedAt /\ frame_count' = frame_count /\ UNCHANGED locals)]_vars

\* the loop was left by the quit key during the second frame, the pipeline
\* was set to Null and main has returned, with a frame still in the queue
C18_Witness ==
    /\ pc = "done"
    /\ exit = "Ok"
    /\ pipeline = "Null"
    /\ frame_count = 2
    /\ queue # <<>>

\* C19: the frame counter goes up by exactly 1 with every sample pulled,
\* also one that is then skipped, and changes at no other step.  So the frame
\* numbers of the detection lines are strictly increasing: a line carries the
\* present count, and none with that count was printed before.  The FPS line
\* is printed only for a frame that went through every stage and whose
\* number is a multiple of 120.
C19_CounterAndReports ==
    /\ [][(pc = "pull" /\ pc' = "buffer") => frame_count' = frame_count + 1]_vars
    /\ [][frame_count' # frame_count
            => (pc = "pull" /\ pc' = "buffer" /\ frame_count' = frame_count + 1)]_vars
    /\ [][(marker' # marker /\ marker' # None)
            => (~logged /\ marker'[1].frame = frame_count /\ frame_count' = frame_count)]_vars
    /\ [](reported =>
            /\ frame_count > 0
            /\ frame_count % FpsPeriod = 0
            /\ Len(data) >= expected
            /\ FullyProcessed
            /\ polled)

\* the 120th sample was too short: it was counted and skipped, and no FPS
\* line was printed for it, though 120 is a multiple of 120
C19_Witness ==
    /\ pc = "pull"
    /\ frame_count = FpsPeriod
    /\ data # <<>>
    /\ Len(data) < expected
    /\ ~reported

====
